---- MODULE Spec2Model ----
(***************************************************************************)
(* A model of the ABC metrics tool (Go): the metrics package (ABCMetrics,  *)
(* Score, CombineMetrics, SeverityLevel), the Go analyzer (AnalyzeFile and *)
(* goVisitor.Visit driven by ast.Walk), the analyzer dispatch              *)
(* (GetAnalyzerForFile, HasExtension) and the analyze command.             *)
(***************************************************************************)
EXTENDS Integers, Sequences, FiniteSets, TLC

VARIABLES
    pc,         \* position of the analyze command: idle, walking, returned, reported, exit1
    filePath,   \* the path given to the command
    analyzer,   \* result of GetAnalyzerForFile: "GoAnalyzer" or "nil"
    err,        \* the error of the failing call, NoError when none
    agenda,     \* ast.Walk's pending calls of Visit, in call order
    metrics,    \* goVisitor.metrics, the accumulator the traversal owns
    visited,    \* positions of the nodes Visit was called on, in call order
    ret,        \* the ABCMetrics value AnalyzeFile returned
    output,     \* what the command printed on stdout
    combined,   \* CombineMetrics(finished accumulators), folded in completion order
    nfiles,     \* number of commands run so far
    intBytes,   \* size of Go's int in bytes on the build (4 or 8)
    counts,     \* the three count fields of an ABCMetrics value handed to Score
    score,      \* a float64 handed to SeverityLevel (from Score or from the caller)
    label,      \* the result of SeverityLevel(score), "" before the call
    npc,        \* where score comes from: input (none yet), scored (Score), given (a caller)
    operands,   \* the arguments of a call of CombineMetrics
    folded,     \* CombineMetrics' local `combined`
    nfolded     \* number of arguments CombineMetrics' loop has folded

vars == <<pc, filePath, analyzer, err, agenda, metrics, visited, ret, output,
          combined, nfiles, intBytes, counts, score, label, npc,
          operands, folded, nfolded>>

walkVars == <<pc, filePath, analyzer, err, agenda, metrics, visited, ret, output,
              combined, nfiles>>

numVars == <<intBytes, counts, score, label, npc>>

combineVars == <<operands, folded, nfolded>>

(***************************************************************************)
(* Bounds of the model.                                                    *)
(***************************************************************************)
\* at most this many files are analysed and folded into `combined`
MaxFiles == 2

\* at most this many arguments in a call of CombineMetrics
MaxArgs == 3

(***************************************************************************)
(* Syntax trees as go/parser builds them.  A node is a record with its     *)
(* kind, its start position and the fields of the go/ast type.  An absent  *)
(* optional child (a nil field) is NilNode.                                *)
(***************************************************************************)
NilNode == [kind |-> "nil"]

P(line, col) == [Line |-> line, Column |-> col]

Ident(p, name) == [kind |-> "Ident", Pos |-> p, Name |-> name]

BasicLit(p, value) == [kind |-> "BasicLit", Pos |-> p, Value |-> value]

SelectorExpr(p, x, sel) == [kind |-> "SelectorExpr", Pos |-> p, X |-> x, Sel |-> sel]

IndexExpr(p, x, index) == [kind |-> "IndexExpr", Pos |-> p, X |-> x, Index |-> index]

ParenExpr(p, x) == [kind |-> "ParenExpr", Pos |-> p, X |-> x]

CallExpr(p, fun, args) == [kind |-> "CallExpr", Pos |-> p, Fun |-> fun, Args |-> args]

BinaryExpr(p, x, op, y) == [kind |-> "BinaryExpr", Pos |-> p, X |-> x, Op |-> op, Y |-> y]

AssignStmt(p, lhs, rhs) == [kind |-> "AssignStmt", Pos |-> p, Lhs |-> lhs, Rhs |-> rhs]

ExprStmt(p, x) == [kind |-> "ExprStmt", Pos |-> p, X |-> x]

BlockStmt(p, list) == [kind |-> "BlockStmt", Pos |-> p, List |-> list]

IfStmt(p, init, cond, body, else) ==
    [kind |-> "IfStmt", Pos |-> p, Init |-> init, Cond |-> cond, Body |-> body, Else |-> else]

ForStmt(p, init, cond, post, body) ==
    [kind |-> "ForStmt", Pos |-> p, Init |-> init, Cond |-> cond, Post |-> post, Body |-> body]

RangeStmt(p, key, value, x, body) ==
    [kind |-> "RangeStmt", Pos |-> p, Key |-> key, Value |-> value, X |-> x, Body |-> body]

SwitchStmt(p, init, tag, body) ==
    [kind |-> "SwitchStmt", Pos |-> p, Init |-> init, Tag |-> tag, Body |-> body]

TypeSwitchStmt(p, init, assign, body) ==
    [kind |-> "TypeSwitchStmt", Pos |-> p, Init |-> init, Assign |-> assign, Body |-> body]

SelectStmt(p, body) == [kind |-> "SelectStmt", Pos |-> p, Body |-> body]

\* go/parser leaves List nil for a default clause and never builds an empty
\* non-nil List, so the nil List is the empty sequence here.
CaseClause(p, list, body) == [kind |-> "CaseClause", Pos |-> p, List |-> list, Body |-> body]

CommClause(p, comm, body) == [kind |-> "CommClause", Pos |-> p, Comm |-> comm, Body |-> body]

TypeAssertExpr(p, x) == [kind |-> "TypeAssertExpr", Pos |-> p, X |-> x]

UnaryExpr(p, op, x) == [kind |-> "UnaryExpr", Pos |-> p, Op |-> op, X |-> x]

IncDecStmt(p, x) == [kind |-> "IncDecStmt", Pos |-> p, X |-> x]

FieldList(p) == [kind |-> "FieldList", Pos |-> p]

FuncType(p, params) == [kind |-> "FuncType", Pos |-> p, Params |-> params]

FuncDecl(p, name, type, body) ==
    [kind |-> "FuncDecl", Pos |-> p, Name |-> name, Type |-> type, Body |-> body]

File(p, name, decls) == [kind |-> "File", Pos |-> p, Name |-> name, Decls |-> decls]

\* the non-nil ones of a node's optional children, in order
NonNil(nodes) == SelectSeq(nodes, LAMBDA c : c # NilNode)

(***************************************************************************)
(* ast.Walk's children of a node, in the order Walk descends into them.    *)
(***************************************************************************)
Children(n) ==
    CASE n.kind = "File"           -> <<n.Name>> \o n.Decls
      [] n.kind = "FuncDecl"       -> NonNil(<<n.Name, n.Type, n.Body>>)
      [] n.kind = "FuncType"       -> NonNil(<<n.Params>>)
      [] n.kind = "UnaryExpr"      -> <<n.X>>
      [] n.kind = "IncDecStmt"     -> <<n.X>>
      [] n.kind = "BlockStmt"      -> n.List
      [] n.kind = "ExprStmt"       -> <<n.X>>
      [] n.kind = "AssignStmt"     -> n.Lhs \o n.Rhs
      [] n.kind = "CallExpr"       -> <<n.Fun>> \o n.Args
      [] n.kind = "SelectorExpr"   -> <<n.X, n.Sel>>
      [] n.kind = "IndexExpr"      -> <<n.X, n.Index>>
      [] n.kind = "ParenExpr"      -> <<n.X>>
      [] n.kind = "TypeAssertExpr" -> <<n.X>>
      [] n.kind = "BinaryExpr"     -> <<n.X, n.Y>>
      [] n.kind = "IfStmt"         -> NonNil(<<n.Init, n.Cond, n.Body, n.Else>>)
      [] n.kind = "ForStmt"        -> NonNil(<<n.Init, n.Cond, n.Post, n.Body>>)
      [] n.kind = "RangeStmt"      -> NonNil(<<n.Key, n.Value, n.X, n.Body>>)
      [] n.kind = "SwitchStmt"     -> NonNil(<<n.Init, n.Tag, n.Body>>)
      [] n.kind = "TypeSwitchStmt" -> NonNil(<<n.Init, n.Assign, n.Body>>)
      [] n.kind = "SelectStmt"     -> <<n.Body>>
      [] n.kind = "CaseClause"     -> n.List \o n.Body
      [] n.kind = "CommClause"     -> NonNil(<<n.Comm>>) \o n.Body
      [] OTHER                     -> <<>>

(***************************************************************************)
(* package metrics: MetricDetail and ABCMetrics.                           *)
(***************************************************************************)
MetricDetail(line, col, text, context) ==
    [Line |-> line, Col |-> col, Text |-> text, Context |-> context]

\* the zero value ABCMetrics{} (also the accumulator AnalyzeFile starts from)
ZeroMetrics ==
    [Assignments |-> 0, Branches |-> 0, Conditions |-> 0,
     AssignmentList |-> <<>>, BranchList |-> <<>>, ConditionList |-> <<>>]

\* CombineStep with the counts summed and the detail lists of m left out
CombineStepCountsOnly(c, m) ==
    [c EXCEPT !.Assignments = @ + m.Assignments,
              !.Branches = @ + m.Branches,
              !.Conditions = @ + m.Conditions]

\* CombineStep putting the details of m in front of the ones gathered so far
CombineStepPrepend(c, m) ==
    [Assignments    |-> c.Assignments + m.Assignments,
     Branches       |-> c.Branches + m.Branches,
     Conditions     |-> c.Conditions + m.Conditions,
     AssignmentList |-> m.AssignmentList \o c.AssignmentList,
     BranchList     |-> m.BranchList \o c.BranchList,
     ConditionList  |-> m.ConditionList \o c.ConditionList]

\* CombineStep with = for += on the counts
CombineStepAssign(c, m) ==
    [Assignments    |-> m.Assignments,
     Branches       |-> m.Branches,
     Conditions     |-> m.Conditions,
     AssignmentList |-> c.AssignmentList \o m.AssignmentList,
     BranchList     |-> c.BranchList \o m.BranchList,
     ConditionList  |-> c.ConditionList \o m.ConditionList]

\* one iteration of CombineMetrics' loop: combined += m, lists appended
CombineStep(c, m) ==
    [Assignments    |-> c.Assignments + m.Assignments,
     Branches       |-> c.Branches + m.Branches,
     Conditions     |-> c.Conditions + m.Conditions,
     AssignmentList |-> c.AssignmentList \o m.AssignmentList,
     BranchList     |-> c.BranchList \o m.BranchList,
     ConditionList  |-> c.ConditionList \o m.ConditionList]

RECURSIVE CombineFrom(_, _)
CombineFrom(c, ms) ==
    IF ms = <<>> THEN c ELSE CombineFrom(CombineStep(c, Head(ms)), Tail(ms))

\* CombineMetrics(metrics ...ABCMetrics): starts from ABCMetrics{} and folds
\* the arguments in argument order
CombineMetrics(ms) == CombineFrom(ZeroMetrics, ms)

(***************************************************************************)
(* goVisitor.Visit, one operator per case of its type switch.              *)
(***************************************************************************)
\* strings.Join(elems, sep)
RECURSIVE Join(_, _)
Join(elems, sep) ==
    IF elems = <<>> THEN ""
    ELSE IF Len(elems) = 1 THEN elems[1]
    ELSE elems[1] \o sep \o Join(Tail(elems), sep)

\* the loop over n.Lhs: an identifier gives its name, anything else "expr"
VarNames(lhs) ==
    [i \in 1..Len(lhs) |-> IF lhs[i].kind = "Ident" THEN lhs[i].Name ELSE "expr"]

\* VisitAssignStmt counting the statement, not its targets
VisitAssignStmtOneEach(m, n) ==
    [m EXCEPT
       !.Assignments = @ + 1,
       !.AssignmentList =
           Append(@, MetricDetail(n.Pos.Line, n.Pos.Column,
                                  Join(VarNames(n.Lhs), ", "),
                                  "Assignment (" \o ToString(Len(n.Lhs)) \o " variables)"))]

\* case *ast.AssignStmt
VisitAssignStmt(m, n) ==
    LET count == Len(n.Lhs)
    IN  [m EXCEPT
           !.Assignments = @ + count,
           !.AssignmentList =
               Append(@, MetricDetail(n.Pos.Line, n.Pos.Column,
                                      Join(VarNames(n.Lhs), ", "),
                                      "Assignment (" \o ToString(count) \o " variables)"))]

\* FuncName without the receiver of a selector
FuncNameMethodOnly(fun) ==
    CASE fun.kind = "Ident" -> fun.Name
      [] fun.kind = "SelectorExpr" -> fun.Sel.Name
      [] OTHER -> "unknown"

\* the inner type switch on n.Fun that resolves the callee's name
FuncName(fun) ==
    CASE fun.kind = "Ident" -> fun.Name
      [] fun.kind = "SelectorExpr" ->
            IF fun.X.kind = "Ident" THEN fun.X.Name \o "." \o fun.Sel.Name
            ELSE fun.Sel.Name
      [] OTHER -> "unknown"

\* VisitCallExpr that leaves out a call whose callee it cannot name
VisitCallExprResolvedOnly(m, n) ==
    IF FuncName(n.Fun) = "unknown" THEN m
    ELSE [m EXCEPT
            !.Branches = @ + 1,
            !.BranchList =
                Append(@, MetricDetail(n.Pos.Line, n.Pos.Column, FuncName(n.Fun),
                                       "Function call"))]

\* case *ast.CallExpr
VisitCallExpr(m, n) ==
    [m EXCEPT
       !.Branches = @ + 1,
       !.BranchList =
           Append(@, MetricDetail(n.Pos.Line, n.Pos.Column, FuncName(n.Fun), "Function call"))]

\* the body shared by the if/for/range/switch/type switch/select/case cases
AddCondition(m, n, text, context) ==
    [m EXCEPT
       !.Conditions = @ + 1,
       !.ConditionList = Append(@, MetricDetail(n.Pos.Line, n.Pos.Column, text, context))]

\* VisitCaseClause without the test for the default clause
VisitCaseClauseAll(m, n) == AddCondition(m, n, "case clause", "Condition")

\* case *ast.CaseClause: a nil List (the default clause) is skipped
VisitCaseClause(m, n) ==
    IF n.List # <<>> THEN AddCondition(m, n, "case clause", "Condition") ELSE m

\* VisitBinaryExpr that leaves the logical operators to the enclosing statement
VisitBinaryExprSkipped(m, n) == m

\* case *ast.BinaryExpr: only && and || count
VisitBinaryExpr(m, n) ==
    IF n.Op = "&&" \/ n.Op = "||"
    THEN AddCondition(m, n, IF n.Op = "||" THEN "||" ELSE "&&", "Logical operator")
    ELSE m

\* Visit that also counts i++ and i-- as assignments
VisitCountingIncDec(m, n) ==
    IF n = NilNode THEN m
    ELSE CASE n.kind = "AssignStmt"     -> VisitAssignStmt(m, n)
           [] n.kind = "IncDecStmt"     ->
                 [m EXCEPT !.Assignments = @ + 1,
                           !.AssignmentList =
                               Append(@, MetricDetail(n.Pos.Line, n.Pos.Column, "expr",
                                                      "Assignment (1 variables)"))]
           [] n.kind = "CallExpr"       -> VisitCallExpr(m, n)
           [] n.kind = "IfStmt"         -> AddCondition(m, n, "if statement", "Condition")
           [] n.kind = "ForStmt"        -> AddCondition(m, n, "for loop", "Condition")
           [] n.kind = "RangeStmt"      -> AddCondition(m, n, "for range loop", "Condition")
           [] n.kind = "SwitchStmt"     -> AddCondition(m, n, "switch statement", "Condition")
           [] n.kind = "TypeSwitchStmt" -> AddCondition(m, n, "type switch", "Condition")
           [] n.kind = "SelectStmt"     -> AddCondition(m, n, "select statement", "Condition")
           [] n.kind = "CaseClause"     -> VisitCaseClause(m, n)
           [] n.kind = "BinaryExpr"     -> VisitBinaryExpr(m, n)
           [] OTHER                     -> m

\* the accumulator after Visit(node); a nil node and an unmatched kind change nothing
Visit(m, n) ==
    IF n = NilNode THEN m
    ELSE CASE n.kind = "AssignStmt"     -> VisitAssignStmt(m, n)
           [] n.kind = "CallExpr"       -> VisitCallExpr(m, n)
           [] n.kind = "IfStmt"         -> AddCondition(m, n, "if statement", "Condition")
           [] n.kind = "ForStmt"        -> AddCondition(m, n, "for loop", "Condition")
           [] n.kind = "RangeStmt"      -> AddCondition(m, n, "for range loop", "Condition")
           [] n.kind = "SwitchStmt"     -> AddCondition(m, n, "switch statement", "Condition")
           [] n.kind = "TypeSwitchStmt" -> AddCondition(m, n, "type switch", "Condition")
           [] n.kind = "SelectStmt"     -> AddCondition(m, n, "select statement", "Condition")
           [] n.kind = "CaseClause"     -> VisitCaseClause(m, n)
           [] n.kind = "BinaryExpr"     -> VisitBinaryExpr(m, n)
           [] OTHER                     -> m

\* VisitReturns that does not descend below a call expression
VisitReturnsPruning(n) == IF n = NilNode \/ n.kind = "CallExpr" THEN "nil" ELSE "v"

\* Visit's result: nil for a nil node, the visitor itself otherwise
VisitReturns(n) == IF n = NilNode THEN "nil" ELSE "v"

\* ast.Walk(v, node) as the calls of Visit still to make: Visit(node), then, unless
\* it returned nil, the walks of the children in order and a closing Visit(nil)
WalkNext(pending) ==
    LET n == Head(pending)
    IN  IF VisitReturns(n) = "nil" THEN Tail(pending)
        ELSE Children(n) \o <<NilNode>> \o Tail(pending)

(***************************************************************************)
(* Go's int and float64.  An int is its two's complement bit pattern, a    *)
(* little-endian sequence of bytes without high zero bytes, so that the    *)
(* build's width (intBytes) decides where arithmetic wraps.  A float64 is  *)
(* the real number it stands for: NaN, or a sign and the square of the     *)
(* value in units of 10^-6 (float64's rounding is monotone and keeps       *)
(* integers and comparisons with 10, 20 and 40 exact at this resolution).  *)
(***************************************************************************)
Byte == 2^8

IntSizes == {4, 8}

RECURSIVE Norm(_)
Norm(a) ==
    IF a = <<>> THEN <<>>
    ELSE IF a[Len(a)] = 0 THEN Norm(SubSeq(a, 1, Len(a) - 1))
    ELSE a

RECURSIVE BigFromNat(_)
BigFromNat(n) == IF n = 0 THEN <<>> ELSE <<n % Byte>> \o BigFromNat(n \div Byte)

RECURSIVE BigAddC(_, _, _)
BigAddC(a, b, carry) ==
    IF a = <<>> /\ b = <<>> THEN BigFromNat(carry)
    ELSE LET x == IF a = <<>> THEN 0 ELSE Head(a)
             y == IF b = <<>> THEN 0 ELSE Head(b)
             s == x + y + carry
         IN  <<s % Byte>> \o BigAddC(IF a = <<>> THEN a ELSE Tail(a),
                                     IF b = <<>> THEN b ELSE Tail(b),
                                     s \div Byte)

BigAdd(a, b) == Norm(BigAddC(a, b, 0))

RECURSIVE BigMulDigit(_, _, _)
BigMulDigit(a, d, carry) ==
    IF a = <<>> THEN BigFromNat(carry)
    ELSE LET p == Head(a) * d + carry
         IN  <<p % Byte>> \o BigMulDigit(Tail(a), d, p \div Byte)

RECURSIVE BigMul(_, _)
BigMul(a, b) ==
    IF b = <<>> \/ a = <<>> THEN <<>>
    ELSE BigAdd(Norm(BigMulDigit(a, Head(b), 0)), Norm(<<0>> \o BigMul(a, Tail(b))))

RECURSIVE BigLessFrom(_, _, _)
BigLessFrom(a, b, i) ==
    IF i = 0 THEN FALSE
    ELSE IF a[i] # b[i] THEN a[i] < b[i]
    ELSE BigLessFrom(a, b, i - 1)

BigLess(a, b) ==
    IF Len(a) # Len(b) THEN Len(a) < Len(b) ELSE BigLessFrom(a, b, Len(a))

\* the low w bytes: what an int of w bytes keeps of a result
IntWrap(x, w) == Norm(SubSeq(x, 1, IF Len(x) < w THEN Len(x) ELSE w))

\* a * b and a + b on ints of w bytes
IntMul(a, b, w) == IntWrap(BigMul(a, b), w)

IntAdd(a, b, w) == IntWrap(BigAdd(a, b), w)

\* the sign bit of an int of w bytes
IntNegative(x, w) == Len(x) = w /\ x[w] >= Byte \div 2

\* a < b on ints of w bytes
IntLess(a, b, w) ==
    IF IntNegative(a, w) # IntNegative(b, w) THEN IntNegative(a, w) ELSE BigLess(a, b)

NaN == [nan |-> TRUE, neg |-> FALSE, sq |-> <<>>]

Million == BigFromNat(1000000)

\* the float64 of a whole number k >= 0 (a constant of the source)
FloatInt(k) == [nan |-> FALSE, neg |-> FALSE, sq |-> BigMul(BigFromNat(k * k), Million)]

\* the float64 of m thousandths (|m| <= 46340), a value a caller passes
FloatMilli(m) == [nan |-> FALSE, neg |-> m < 0, sq |-> BigFromNat(m * m)]

\* a < b on float64: false when either is NaN
FLess(a, b) ==
    IF a.nan \/ b.nan THEN FALSE
    ELSE IF a.neg # b.neg THEN a.neg
    ELSE IF a.neg THEN BigLess(b.sq, a.sq)
    ELSE BigLess(a.sq, b.sq)

\* math.Sqrt(float64(x)) of an int x of w bytes: NaN for a negative x
SqrtOfInt(x, w) ==
    IF IntNegative(x, w) THEN NaN
    ELSE [nan |-> FALSE, neg |-> FALSE, sq |-> BigMul(x, Million)]

\* the int expression of Score: A*A + B*B + C*C, evaluated left to right
SumOfSquares(m, w) ==
    IntAdd(IntAdd(IntMul(m.Assignments, m.Assignments, w),
                  IntMul(m.Branches, m.Branches, w), w),
           IntMul(m.Conditions, m.Conditions, w), w)

\* ABCMetrics.Score, reading the three count fields (ints of w bytes)
Score(m, w) == SqrtOfInt(SumOfSquares(m, w), w)

\* SeverityLevel with <= for <
SeverityLevelInclusive(s) ==
    IF ~s.nan /\ ~FLess(FloatInt(10), s) THEN "Low"
    ELSE IF ~s.nan /\ ~FLess(FloatInt(20), s) THEN "Medium"
    ELSE IF ~s.nan /\ ~FLess(FloatInt(40), s) THEN "High"
    ELSE "Very High"

\* SeverityLevel(score)
SeverityLevel(s) ==
    IF FLess(s, FloatInt(10)) THEN "Low"
    ELSE IF FLess(s, FloatInt(20)) THEN "Medium"
    ELSE IF FLess(s, FloatInt(40)) THEN "High"
    ELSE "Very High"

\* the count fields of an accumulator as Go ints
GoCounts(m) ==
    [Assignments |-> BigFromNat(m.Assignments),
     Branches    |-> BigFromNat(m.Branches),
     Conditions  |-> BigFromNat(m.Conditions)]

(***************************************************************************)
(* package analyzer: the dispatch on the file's extension.                 *)
(***************************************************************************)
NoError == [type |-> "nil"]

UnsupportedFileError(path) == [type |-> "UnsupportedFileError", FilePath |-> path]

\* fmt.Errorf("<prefix>: %w", err) of AnalyzeFile's two failures
WrappedError(prefix) == [type |-> "wrapError", msg |-> prefix]

\* UnsupportedFileError.Error
ErrorString(e) ==
    IF e.type = "UnsupportedFileError" THEN "unsupported file type: " \o e.FilePath
    ELSE IF e.type = "wrapError" THEN e.msg
    ELSE ""

\* the analyzers slice of GetAnalyzerForFile, in registration order
Analyzers == <<"GoAnalyzer">>

\* GoAnalyzer.SupportedExtensions
SupportedExtensions(a) == IF a = "GoAnalyzer" THEN <<".go">> ELSE <<>>

\* HasExtension comparing the start of the path
HasExtensionPrefix(path, extension) ==
    IF Len(path) < Len(extension) THEN FALSE
    ELSE SubSeq(path, 1, Len(extension)) = extension

\* HasExtension(filePath, extension)
HasExtension(path, extension) ==
    IF Len(path) < Len(extension) THEN FALSE
    ELSE SubSeq(path, Len(path) - Len(extension) + 1, Len(path)) = extension

\* the two nested loops of GetAnalyzerForFile: the first analyzer with a matching extension
RECURSIVE FirstAnalyzer(_, _)
FirstAnalyzer(as, path) ==
    IF as = <<>> THEN "nil"
    ELSE IF \E i \in 1..Len(SupportedExtensions(Head(as))) :
                HasExtension(path, SupportedExtensions(Head(as))[i])
         THEN Head(as)
         ELSE FirstAnalyzer(Tail(as), path)

\* GetAnalyzerForFile(filePath): the analyzer and the error
GetAnalyzerForFile(path) ==
    LET a == FirstAnalyzer(Analyzers, path)
    IN  [analyzer |-> a,
         err |-> IF a = "nil" THEN UnsupportedFileError(path) ELSE NoError]

(***************************************************************************)
(* The files the command is run on: a path and what is behind it, a syntax *)
(* tree as go/parser builds it for the Go source quoted above each tree,   *)
(* a file that cannot be read, or a source that does not parse.            *)
(***************************************************************************)
Unreadable == [kind |-> "unreadable"]

SyntaxError == [kind |-> "syntax error"]

\* package p
EmptyFile == File(P(1, 1), Ident(P(1, 9), "p"), <<>>)

\* package p; func f() { <stmts> }
Src(stmts) ==
    File(P(1, 1), Ident(P(1, 9), "p"),
         <<FuncDecl(P(3, 1), Ident(P(3, 6), "f"), FuncType(P(3, 1), FieldList(P(3, 7))),
                    BlockStmt(P(3, 10), stmts))>>)

\* if a > 0 && b > 0 { x = 1 }
IfAndTree ==
    Src(<<IfStmt(P(4, 2), NilNode,
                 BinaryExpr(P(4, 5),
                            BinaryExpr(P(4, 5), Ident(P(4, 5), "a"), ">", BasicLit(P(4, 9), "0")),
                            "&&",
                            BinaryExpr(P(4, 14), Ident(P(4, 14), "b"), ">", BasicLit(P(4, 18), "0"))),
                 BlockStmt(P(4, 20),
                           <<AssignStmt(P(4, 22), <<Ident(P(4, 22), "x")>>,
                                        <<BasicLit(P(4, 26), "1")>>)>>),
                 NilNode)>>)

\* y = foo.Bar(x)
CallAssignTree ==
    Src(<<AssignStmt(P(4, 2), <<Ident(P(4, 2), "y")>>,
                     <<CallExpr(P(4, 6),
                                SelectorExpr(P(4, 6), Ident(P(4, 6), "foo"), Ident(P(4, 10), "Bar")),
                                <<Ident(P(4, 14), "x")>>)>>)>>)

\* switch v { case 1: f(); case 2, 3: ; default: x = 0 }
SwitchTree ==
    Src(<<SwitchStmt(P(4, 2), NilNode, Ident(P(4, 9), "v"),
            BlockStmt(P(4, 11),
              <<CaseClause(P(5, 2), <<BasicLit(P(5, 7), "1")>>,
                           <<ExprStmt(P(6, 3), CallExpr(P(6, 3), Ident(P(6, 3), "f"), <<>>))>>),
                CaseClause(P(7, 2), <<BasicLit(P(7, 7), "2"), BasicLit(P(7, 10), "3")>>, <<>>),
                CaseClause(P(8, 2), <<>>,
                           <<AssignStmt(P(9, 3), <<Ident(P(9, 3), "x")>>,
                                        <<BasicLit(P(9, 7), "0")>>)>>)>>))>>)

\* a, m[k], c = f(), 2, g.h().k()
MultiAssignTree ==
    Src(<<AssignStmt(P(4, 2),
            <<Ident(P(4, 2), "a"),
              IndexExpr(P(4, 5), Ident(P(4, 5), "m"), Ident(P(4, 7), "k")),
              Ident(P(4, 11), "c")>>,
            <<CallExpr(P(4, 15), Ident(P(4, 15), "f"), <<>>),
              BasicLit(P(4, 20), "2"),
              CallExpr(P(4, 23),
                       SelectorExpr(P(4, 23),
                                    CallExpr(P(4, 23),
                                             SelectorExpr(P(4, 23), Ident(P(4, 23), "g"),
                                                          Ident(P(4, 25), "h")),
                                             <<>>),
                                    Ident(P(4, 29), "k")),
                       <<>>)>>)>>)

\* for i := 0; i < n || done; i++ { }
\* for _, x := range xs { sum += x }
LoopsTree ==
    Src(<<ForStmt(P(4, 2),
                  AssignStmt(P(4, 6), <<Ident(P(4, 6), "i")>>, <<BasicLit(P(4, 11), "0")>>),
                  BinaryExpr(P(4, 14),
                             BinaryExpr(P(4, 14), Ident(P(4, 14), "i"), "<", Ident(P(4, 18), "n")),
                             "||", Ident(P(4, 23), "done")),
                  IncDecStmt(P(4, 29), Ident(P(4, 29), "i")),
                  BlockStmt(P(4, 33), <<>>)),
          RangeStmt(P(6, 2), Ident(P(6, 6), "_"), Ident(P(6, 9), "x"), Ident(P(6, 20), "xs"),
                    BlockStmt(P(6, 23),
                              <<AssignStmt(P(7, 3), <<Ident(P(7, 3), "sum")>>,
                                           <<Ident(P(7, 10), "x")>>)>>))>>)

\* switch t := v.(type) { case int: ; default: }
\* select { case <-ch: ; default: }
TypeSwitchSelectTree ==
    Src(<<TypeSwitchStmt(P(4, 2), NilNode,
            AssignStmt(P(4, 9), <<Ident(P(4, 9), "t")>>,
                       <<TypeAssertExpr(P(4, 14), Ident(P(4, 14), "v"))>>),
            BlockStmt(P(4, 23),
                      <<CaseClause(P(5, 2), <<Ident(P(5, 7), "int")>>, <<>>),
                        CaseClause(P(6, 2), <<>>, <<>>)>>)),
          SelectStmt(P(8, 2),
            BlockStmt(P(8, 9),
                      <<CommClause(P(9, 2),
                                   ExprStmt(P(9, 7), UnaryExpr(P(9, 7), "<-", Ident(P(9, 9), "ch"))),
                                   <<>>),
                        CommClause(P(10, 2), NilNode, <<>>)>>))>>)

\* (f)(x)
\* fs[0]()
UnknownCallTree ==
    Src(<<ExprStmt(P(4, 2),
                   CallExpr(P(4, 2), ParenExpr(P(4, 2), Ident(P(4, 3), "f")),
                            <<Ident(P(4, 6), "x")>>)),
          ExprStmt(P(5, 2),
                   CallExpr(P(5, 2),
                            IndexExpr(P(5, 2), Ident(P(5, 2), "fs"), BasicLit(P(5, 5), "0")),
                            <<>>))>>)

\* the switch of processData
TaglessSwitchTree ==
    Src(<<SwitchStmt(P(33, 3), NilNode, NilNode,
            BlockStmt(P(33, 10),
              <<CaseClause(P(34, 3),
                  <<IndexExpr(P(34, 8), Ident(P(34, 8), "options"), BasicLit(P(34, 16), "\"trim\""))>>,
                  <<AssignStmt(P(35, 4), <<Ident(P(35, 4), "item")>>,
                      <<CallExpr(P(35, 11),
                                 SelectorExpr(P(35, 11), Ident(P(35, 11), "strings"),
                                              Ident(P(35, 19), "TrimSpace")),
                                 <<Ident(P(35, 29), "item")>>)>>)>>),
                CaseClause(P(36, 3),
                  <<BinaryExpr(P(36, 8),
                      IndexExpr(P(36, 8), Ident(P(36, 8), "options"), BasicLit(P(36, 16), "\"prefix\"")),
                      "&&",
                      BinaryExpr(P(36, 29),
                                 CallExpr(P(36, 29), Ident(P(36, 29), "len"),
                                          <<Ident(P(36, 33), "item")>>),
                                 ">", BasicLit(P(36, 41), "0")))>>,
                  <<AssignStmt(P(37, 4), <<Ident(P(37, 4), "item")>>,
                      <<BinaryExpr(P(37, 11), BasicLit(P(37, 11), "\"PREFIX_\""), "+",
                                   Ident(P(37, 23), "item"))>>)>>)>>))>>)

\* the if / else if of main
IfElseTree ==
    Src(<<IfStmt(P(60, 2), NilNode,
            BinaryExpr(P(60, 5),
              BinaryExpr(P(60, 5), Ident(P(60, 5), "sum"), ">", BasicLit(P(60, 11), "10")),
              "&&",
              BinaryExpr(P(60, 17),
                         CallExpr(P(60, 17), Ident(P(60, 17), "len"), <<Ident(P(60, 21), "args")>>),
                         ">", BasicLit(P(60, 29), "0"))),
            BlockStmt(P(60, 31),
              <<AssignStmt(P(61, 3),
                  <<IndexExpr(P(61, 3), Ident(P(61, 3), "options"), BasicLit(P(61, 11), "\"uppercase\""))>>,
                  <<Ident(P(61, 26), "true")>>)>>),
            IfStmt(P(62, 9), NilNode,
              BinaryExpr(P(62, 12),
                BinaryExpr(P(62, 12), Ident(P(62, 12), "sum"), "<=", BasicLit(P(62, 19), "10")),
                "||",
                BinaryExpr(P(62, 25),
                           CallExpr(P(62, 25), Ident(P(62, 25), "len"), <<Ident(P(62, 29), "args")>>),
                           "==", BasicLit(P(62, 38), "0"))),
              BlockStmt(P(62, 40),
                <<AssignStmt(P(63, 3),
                    <<IndexExpr(P(63, 3), Ident(P(63, 3), "options"), BasicLit(P(63, 11), "\"lowercase\""))>>,
                    <<Ident(P(63, 26), "true")>>)>>),
              NilNode))>>)

Inputs ==
    << [path |-> "empty.go",       content |-> EmptyFile],
       [path |-> "ifand.go",       content |-> IfAndTree],
       [path |-> "pkg/call.go",    content |-> CallAssignTree],
       [path |-> "switch.go",      content |-> SwitchTree],
       [path |-> "multi.go",       content |-> MultiAssignTree],
       [path |-> "loops.go",       content |-> LoopsTree],
       [path |-> "typeswitch.go",  content |-> TypeSwitchSelectTree],
       [path |-> "unknown.go",     content |-> UnknownCallTree],
       [path |-> "tagless.go",     content |-> TaglessSwitchTree],
       [path |-> ".go",            content |-> IfElseTree],
       [path |-> "missing.go",     content |-> Unreadable],
       [path |-> "broken.go",      content |-> SyntaxError],
       [path |-> "test.ts",        content |-> SyntaxError],
       [path |-> "go",             content |-> CallAssignTree],
       [path |-> "",               content |-> Unreadable],
       [path |-> "main.go.bak",    content |-> IfAndTree],
       [path |-> "main.GO",        content |-> IfAndTree],
       [path |-> ".gox",           content |-> Unreadable],
       [path |-> "Makefile",       content |-> SyntaxError] >>

(***************************************************************************)
(* The analyze command, run on one file after another; the finished        *)
(* accumulators are folded with CombineMetrics in completion order.        *)
(***************************************************************************)
InitWalk ==
    /\ pc = "idle"
    /\ filePath = ""
    /\ analyzer = "nil"
    /\ err = NoError
    /\ agenda = <<>>
    /\ metrics = ZeroMetrics
    /\ visited = <<>>
    /\ ret = ZeroMetrics
    /\ output = <<>>
    /\ combined = CombineMetrics(<<>>)
    /\ nfiles = 0

InitNum ==
    /\ counts = GoCounts(ZeroMetrics)
    /\ score = FloatInt(0)
    /\ label = ""
    /\ npc = "input"

InitCombine ==
    /\ operands = <<>>
    /\ folded = ZeroMetrics
    /\ nfolded = 0

Init ==
    /\ InitWalk
    /\ intBytes \in IntSizes
    /\ InitNum
    /\ InitCombine

\* ErrorReturn handing back what the caller had from the file before
ErrorReturnStale(prefix) == [metrics |-> ret, err |-> WrappedError(prefix)]

\* AnalyzeFile's two failing returns: metrics.ABCMetrics{} and the wrapped error
ErrorReturn(prefix) == [metrics |-> ZeroMetrics, err |-> WrappedError(prefix)]

\* Run up to a failing GetAnalyzerForFile: the error is printed and the command exits
RunUnsupported(i) ==
    LET in == Inputs[i]
        d  == GetAnalyzerForFile(in.path)
    IN  /\ pc = "idle"
        /\ nfiles < MaxFiles
        /\ d.err # NoError
        /\ filePath' = in.path
        /\ analyzer' = d.analyzer
        /\ err' = d.err
        /\ output' = <<[text |-> "Analyzing file: " \o in.path]>>
        /\ pc' = "exit1"
        /\ UNCHANGED <<agenda, metrics, visited, ret, combined, nfiles>>
        /\ UNCHANGED <<numVars, combineVars>>

\* Run into AnalyzeFile, whose os.ReadFile fails: ABCMetrics{} and the wrapped error
AnalyzeFileReadError(i) ==
    LET in == Inputs[i]
        d  == GetAnalyzerForFile(in.path)
    IN  /\ pc = "idle"
        /\ nfiles < MaxFiles
        /\ d.err = NoError
        /\ in.content = Unreadable
        /\ filePath' = in.path
        /\ analyzer' = d.analyzer
        /\ output' = <<[text |-> "Analyzing file: " \o in.path]>>
        /\ ret' = ErrorReturn("error reading file").metrics
        /\ err' = ErrorReturn("error reading file").err
        /\ pc' = "returned"
        /\ UNCHANGED <<agenda, metrics, visited, combined, nfiles>>
        /\ UNCHANGED <<numVars, combineVars>>

\* Run into AnalyzeFile, whose parser.ParseFile fails: ABCMetrics{} and the wrapped error
AnalyzeFileParseError(i) ==
    LET in == Inputs[i]
        d  == GetAnalyzerForFile(in.path)
    IN  /\ pc = "idle"
        /\ nfiles < MaxFiles
        /\ d.err = NoError
        /\ in.content = SyntaxError
        /\ filePath' = in.path
        /\ analyzer' = d.analyzer
        /\ output' = <<[text |-> "Analyzing file: " \o in.path]>>
        /\ ret' = ErrorReturn("error parsing file").metrics
        /\ err' = ErrorReturn("error parsing file").err
        /\ pc' = "returned"
        /\ UNCHANGED <<agenda, metrics, visited, combined, nfiles>>
        /\ UNCHANGED <<numVars, combineVars>>

\* Run into AnalyzeFile up to ast.Walk(v, f): a fresh visitor on the parsed file
AnalyzeFileStart(i) ==
    LET in == Inputs[i]
        d  == GetAnalyzerForFile(in.path)
    IN  /\ pc = "idle"
        /\ nfiles < MaxFiles
        /\ d.err = NoError
        /\ in.content.kind = "File"
        /\ filePath' = in.path
        /\ analyzer' = d.analyzer
        /\ output' = <<[text |-> "Analyzing file: " \o in.path]>>
        /\ err' = NoError
        /\ metrics' = ZeroMetrics
        /\ agenda' = <<in.content>>
        /\ visited' = <<>>
        /\ pc' = "walking"
        /\ UNCHANGED <<ret, combined, nfiles>>
        /\ UNCHANGED <<numVars, combineVars>>

\* one call of Visit by ast.Walk
WalkStep ==
    /\ pc = "walking"
    /\ agenda # <<>>
    /\ metrics' = Visit(metrics, Head(agenda))
    /\ agenda' = WalkNext(agenda)
    /\ visited' = IF Head(agenda) = NilNode THEN visited
                  ELSE Append(visited, [kind |-> Head(agenda).kind, Pos |-> Head(agenda).Pos])
    /\ UNCHANGED <<pc, filePath, analyzer, err, ret, output, combined, nfiles>>
    /\ UNCHANGED <<numVars, combineVars>>

\* ast.Walk is over: AnalyzeFile returns v.metrics, nil
AnalyzeFileReturn ==
    /\ pc = "walking"
    /\ agenda = <<>>
    /\ ret' = metrics
    /\ pc' = "returned"
    /\ UNCHANGED <<filePath, analyzer, err, agenda, metrics, visited, output, combined, nfiles>>
    /\ UNCHANGED <<numVars, combineVars>>

\* Run after a failed AnalyzeFile: the error goes to stderr, exit status 1
ReportError ==
    /\ pc = "returned"
    /\ err # NoError
    /\ pc' = "exit1"
    /\ UNCHANGED <<filePath, analyzer, err, agenda, metrics, visited, ret, output, combined, nfiles>>
    /\ UNCHANGED <<numVars, combineVars>>

\* the numbered lines Run prints for one evidence list: "  i. Line L: Text (Context)"
DetailLines(list) ==
    [i \in 1..Len(list) |->
        [text |-> "detail", n |-> i, Line |-> list[i].Line,
         Text |-> list[i].Text, Context |-> list[i].Context]]

\* what Run prints under --show: the three lists, each under its heading
Details(m) ==
    <<[text |-> "Assignments:"]>> \o DetailLines(m.AssignmentList) \o
    <<[text |-> "Branches:"]>> \o DetailLines(m.BranchList) \o
    <<[text |-> "Conditions:"]>> \o DetailLines(m.ConditionList)

\* Run after AnalyzeFile: prints abcMetrics.String() and the severity of its Score,
\* and under --show the detail listing
Report ==
    /\ pc = "returned"
    /\ err = NoError
    /\ counts' = GoCounts(ret)
    /\ score' = Score(counts', intBytes)
    /\ label' = SeverityLevel(score')
    /\ npc' = "scored"
    /\ \E showDetails \in BOOLEAN :
         output' = output \o
                   << [text |-> "ABC", score |-> score', A |-> ret.Assignments,
                       B |-> ret.Branches, C |-> ret.Conditions],
                      [text |-> "Complexity: " \o label'] >> \o
                   (IF showDetails THEN Details(ret) ELSE <<>>)
    /\ pc' = "reported"
    /\ UNCHANGED <<filePath, analyzer, err, agenda, metrics, visited, ret, combined, nfiles, intBytes>>
    /\ UNCHANGED combineVars

\* the caller folds the finished accumulator into the total and goes on
NextFile ==
    /\ pc = "reported"
    /\ combined' = CombineMetrics(<<combined, ret>>)
    /\ nfiles' = nfiles + 1
    /\ pc' = "idle"
    /\ UNCHANGED <<filePath, analyzer, err, agenda, metrics, visited, ret, output>>
    /\ UNCHANGED <<numVars, combineVars>>

\* the caller goes on to the next file after a failed run
NextAfterFailure ==
    /\ pc = "exit1"
    /\ nfiles' = nfiles + 1
    /\ pc' = "idle"
    /\ UNCHANGED <<filePath, analyzer, err, agenda, metrics, visited, ret, output, combined>>
    /\ UNCHANGED <<numVars, combineVars>>

Next ==
    \/ \E i \in 1..Len(Inputs) : RunUnsupported(i)
    \/ \E i \in 1..Len(Inputs) : AnalyzeFileReadError(i)
    \/ \E i \in 1..Len(Inputs) : AnalyzeFileParseError(i)
    \/ \E i \in 1..Len(Inputs) : AnalyzeFileStart(i)
    \/ WalkStep
    \/ AnalyzeFileReturn
    \/ ReportError
    \/ Report
    \/ NextFile
    \/ NextAfterFailure

Spec == Init /\ [][Next]_vars

(***************************************************************************)
(* CombineMetrics on its own: called with up to MaxArgs accumulators, each *)
(* the zero value or the result of AnalyzeFile on one of the files.        *)
(***************************************************************************)
\* ast.Walk(v, f) run to its end from the accumulator m
RECURSIVE WalkAll(_, _)
WalkAll(m, pending) ==
    IF pending = <<>> THEN m
    ELSE LET after == Visit(m, Head(pending))
         IN  \* the test only makes TLC evaluate this step before it descends
             IF after = after THEN WalkAll(after, WalkNext(pending)) ELSE after

\* what AnalyzeFile returns for a file that is read and parsed
AnalyzeFile(content) == WalkAll(ZeroMetrics, <<content>>)

Accumulators ==
    {ZeroMetrics} \cup
    {AnalyzeFile(Inputs[i].content) : i \in {j \in 1..Len(Inputs) : Inputs[j].content.kind = "File"}}

RECURSIVE SeqsUpTo(_, _)
SeqsUpTo(S, n) ==
    IF n = 0 THEN {<<>>}
    ELSE LET shorter == SeqsUpTo(S, n - 1)
         IN  shorter \cup {Append(q, x) : q \in {r \in shorter : Len(r) = n - 1}, x \in S}

InitC ==
    /\ InitWalk
    /\ intBytes = 8
    /\ InitNum
    /\ operands \in SeqsUpTo(Accumulators, MaxArgs)
    /\ folded = ZeroMetrics
    /\ nfolded = 0

\* one iteration of `for _, m := range metrics`
CombineLoop ==
    /\ nfolded < Len(operands)
    /\ folded' = CombineStep(folded, operands[nfolded + 1])
    /\ nfolded' = nfolded + 1
    /\ UNCHANGED <<operands, walkVars, numVars>>

\* CombineMetrics(CombineMetrics(a, b), x): the result of a finished call on two
\* files' accumulators is the first argument of the next call
NestLeft(x) ==
    /\ nfolded = Len(operands)
    /\ Len(operands) = 2
    /\ \A i \in 1..2 : operands[i] \in Accumulators
    /\ operands' = <<folded, x>>
    /\ folded' = ZeroMetrics
    /\ nfolded' = 0
    /\ UNCHANGED <<walkVars, numVars>>

\* CombineMetrics(x, CombineMetrics(b, c)): the result is the second argument
NestRight(x) ==
    /\ nfolded = Len(operands)
    /\ Len(operands) = 2
    /\ \A i \in 1..2 : operands[i] \in Accumulators
    /\ operands' = <<x, folded>>
    /\ folded' = ZeroMetrics
    /\ nfolded' = 0
    /\ UNCHANGED <<walkVars, numVars>>

NextC ==
    \/ CombineLoop
    \/ \E x \in Accumulators : NestLeft(x)
    \/ \E x \in Accumulators : NestRight(x)

SpecC == InitC /\ [][NextC]_vars

(***************************************************************************)
(* Score and SeverityLevel on their own: Score on the count fields of any  *)
(* ABCMetrics value, SeverityLevel on Score's result or a caller's float.  *)
(***************************************************************************)
\* counts every build holds, then the ones around the points where the squares wrap
SmallCounts == {BigFromNat(0), BigFromNat(3), BigFromNat(10), BigFromNat(20), BigFromNat(40)}

CountVals(w) ==
    SmallCounts \cup
    (IF w = 4
     THEN {BigFromNat(46340), BigFromNat(46341), BigFromNat(65536), <<255, 255, 255, 127>>}
     ELSE {BigFromNat(46341),
           <<0, 0, 0, 0, 1>>,                              \* 2^32
           <<51, 243, 4, 181>>,                            \* 3037000499
           <<52, 243, 4, 181>>,                            \* 3037000500
           <<255, 255, 255, 255, 255, 255, 255, 127>>})    \* 2^63 - 1

TestFloats ==
    {NaN} \cup
    {FloatMilli(m) : m \in {-1000, 0, 9999, 10000, 10001, 19999, 20000, 20001,
                            39999, 40000, 40001, 46000}}

InitS ==
    /\ InitWalk
    /\ InitCombine
    /\ intBytes \in IntSizes
    /\ label = ""
    /\ \/ /\ npc = "input"
          /\ score = FloatInt(0)
          /\ counts \in [Assignments : CountVals(intBytes), Branches : CountVals(intBytes),
                         Conditions : CountVals(intBytes)]
       \/ /\ npc = "given"
          /\ score \in TestFloats
          /\ counts = GoCounts(ZeroMetrics)

\* m.Score() on an ABCMetrics value with these counts
CallScore ==
    /\ npc = "input"
    /\ score' = Score(counts, intBytes)
    /\ npc' = "scored"
    /\ UNCHANGED <<intBytes, counts, label, walkVars, combineVars>>

\* SeverityLevel(score)
CallSeverityLevel ==
    /\ npc \in {"scored", "given"}
    /\ label = ""
    /\ label' = SeverityLevel(score)
    /\ UNCHANGED <<intBytes, counts, score, npc, walkVars, combineVars>>

NextS == CallScore \/ CallSeverityLevel

SpecS == InitS /\ [][NextS]_vars

(***************************************************************************)
(* Properties.                                                             *)
(***************************************************************************)
\* the accumulators a caller can observe: the traversal's own, the one AnalyzeFile
\* returned and the CombineMetrics of the finished ones
Observed == {metrics, ret, combined}

\* number of names in the Text of an assignment record: its separators plus one
RECURSIVE CommasFrom(_, _)
CommasFrom(text, i) ==
    IF i > Len(text) THEN 0
    ELSE (IF SubSeq(text, i, i) = "," THEN 1 ELSE 0) + CommasFrom(text, i + 1)

RECURSIVE TargetsRecorded(_)
TargetsRecorded(list) ==
    IF list = <<>> THEN 0
    ELSE 1 + CommasFrom(Head(list).Text, 1) + TargetsRecorded(Tail(list))

\* C1 as stated: in every observable accumulator each evidence list is as long as
\* its count field says.
EvidenceLengthEqualsCount ==
    \A m \in Observed :
        /\ Len(m.AssignmentList) = m.Assignments
        /\ Len(m.BranchList) = m.Branches
        /\ Len(m.ConditionList) = m.Conditions

\* C1 amended: BranchList and ConditionList are as long as Branches and Conditions
\* say; AssignmentList holds one record per assignment statement and Assignments
\* is the sum of the recorded statements' target counts, so the list is never
\* longer than the count.
EvidenceLengthMatchesCount ==
    \A m \in Observed :
        /\ Len(m.BranchList) = m.Branches
        /\ Len(m.ConditionList) = m.Conditions
        /\ m.Assignments = TargetsRecorded(m.AssignmentList)
        /\ Len(m.AssignmentList) <= m.Assignments

\* the three-target assignment of multi.go, analysed and folded by CombineMetrics
EvidenceLengthWitness ==
    /\ nfiles = 1
    /\ pc = "idle"
    /\ combined.Assignments = 3
    /\ Len(combined.AssignmentList) = 1
    /\ combined.Branches = 3
    /\ Len(combined.BranchList) = 3

\* the walk is about to call Visit on a node of this kind
Visiting(kind) == pc = "walking" /\ agenda # <<>> /\ Head(agenda).kind = kind

\* the syntax tree behind a path
TreeOf(path) == Inputs[CHOOSE i \in 1..Len(Inputs) : Inputs[i].path = path].content

\* every node of a tree
RECURSIVE NodesOf(_)
NodesOf(list) ==
    IF list = <<>> THEN <<>>
    ELSE <<Head(list)>> \o NodesOf(Children(Head(list))) \o NodesOf(Tail(list))

\* how many nodes of the tree behind the analysed path are of one of these kinds
NumKind(kinds) ==
    LET all == NodesOf(<<TreeOf(filePath)>>)
    IN  Cardinality({i \in 1..Len(all) : all[i].kind \in kinds})

\* how many records of a list carry one of these texts
NumText(list, texts) == Cardinality({i \in 1..Len(list) : list[i].Text \in texts})

Decimal == <<"1", "2", "3", "4", "5", "6", "7", "8", "9">>

RECURSIVE TargetsText(_)
TargetsText(lhs) ==
    LET name == IF Head(lhs).kind = "Ident" THEN Head(lhs).Name ELSE "expr"
    IN  IF Len(lhs) = 1 THEN name ELSE name \o ", " \o TargetsText(Tail(lhs))

\* C2: the visit of an assignment statement with N >= 1 targets adds N to
\* Assignments and appends one record, with context "Assignment (N variables)"
\* and the comma-joined target names ("expr" for a target that is no identifier)
\* as text; Branches, Conditions and their lists stay as they are.
AssignmentVisitEffect ==
    [][Visiting("AssignStmt") =>
         LET n    == Head(agenda)
             N    == Len(n.Lhs)
             old  == metrics.AssignmentList
             new  == metrics'.AssignmentList
         IN  /\ N >= 1
             /\ metrics'.Assignments = metrics.Assignments + N
             /\ Len(new) = Len(old) + 1
             /\ SubSeq(new, 1, Len(old)) = old
             /\ new[Len(new)].Context = "Assignment (" \o Decimal[N] \o " variables)"
             /\ new[Len(new)].Text = TargetsText(n.Lhs)
             /\ new[Len(new)].Line = n.Pos.Line
             /\ metrics'.Branches = metrics.Branches
             /\ metrics'.Conditions = metrics.Conditions
             /\ metrics'.BranchList = metrics.BranchList
             /\ metrics'.ConditionList = metrics.ConditionList]_vars

\* a, m[k], c = ... has just been visited
AssignmentVisitWitness ==
    /\ pc = "walking"
    /\ filePath = "multi.go"
    /\ metrics.Assignments = 3
    /\ metrics.AssignmentList =
         <<MetricDetail(4, 2, "a, expr, c", "Assignment (3 variables)")>>
    /\ metrics.Branches = 0

\* C3: the visit of a default case clause changes no count and no list, the visit
\* of a clause with match values adds one to Conditions (one "case clause"
\* record) and nothing else, and the switch adds its own one: a finished file's
\* switch and case records number its switches plus its value clauses, 3 for the
\* switch with a default and two value clauses.
CaseClauseVisitEffect ==
    [][/\ Visiting("CaseClause") =>
            IF Head(agenda).List = <<>> THEN metrics' = metrics
            ELSE /\ metrics'.Conditions = metrics.Conditions + 1
                 /\ metrics'.ConditionList =
                      Append(metrics.ConditionList,
                             MetricDetail(Head(agenda).Pos.Line, Head(agenda).Pos.Column,
                                          "case clause", "Condition"))
                 /\ metrics'.Assignments = metrics.Assignments
                 /\ metrics'.Branches = metrics.Branches
                 /\ metrics'.AssignmentList = metrics.AssignmentList
                 /\ metrics'.BranchList = metrics.BranchList
       /\ Visiting("SwitchStmt") => metrics'.Conditions = metrics.Conditions + 1
       /\ (pc = "walking" /\ pc' = "returned") =>
            LET all    == NodesOf(<<TreeOf(filePath)>>)
                valued == Cardinality({i \in 1..Len(all) :
                              all[i].kind = "CaseClause" /\ Len(all[i].List) >= 1})
            IN  /\ NumText(ret'.ConditionList, {"case clause"}) = valued
                /\ NumText(ret'.ConditionList, {"switch statement"}) = NumKind({"SwitchStmt"})
                /\ filePath = "switch.go" => ret'.Conditions = 3]_vars

\* switch v { case 1: ; case 2, 3: ; default: } is analysed: three conditions
CaseClauseWitness ==
    /\ pc = "returned"
    /\ filePath = "switch.go"
    /\ ret.Conditions = 3
    /\ \E i \in 1..Len(visited) : visited[i] = [kind |-> "CaseClause", Pos |-> P(8, 2)]

ConditionStatements ==
    {"IfStmt", "ForStmt", "RangeStmt", "SwitchStmt", "TypeSwitchStmt", "SelectStmt"}

\* C8: conditions add up: the Conditions of an analysed file is the number of
\* its if/for/range/switch/type switch/select statements, plus its case clauses
\* with values, plus its && and || expressions wherever they stand; for
\* `if a > 0 && b > 0 { x = 1 }` that is 2, with 1 assignment and no branch.
ConditionsAddUp ==
    (pc = "returned" /\ err = NoError) =>
        LET all     == NodesOf(<<TreeOf(filePath)>>)
            valued  == Cardinality({i \in 1..Len(all) :
                          all[i].kind = "CaseClause" /\ Len(all[i].List) >= 1})
            logical == Cardinality({i \in 1..Len(all) :
                          all[i].kind = "BinaryExpr" /\ all[i].Op \in {"&&", "||"}})
        IN  /\ ret.Conditions = NumKind(ConditionStatements) + valued + logical
            /\ NumText(ret.ConditionList, {"&&", "||"}) = logical
            /\ filePath = "ifand.go" =>
                 /\ ret.Conditions = 2
                 /\ ret.Assignments = 1
                 /\ ret.Branches = 0
                 /\ ret.ConditionList = <<MetricDetail(4, 2, "if statement", "Condition"),
                                          MetricDetail(4, 5, "&&", "Logical operator")>>

\* `if a > 0 && b > 0 { x = 1 }` is analysed
ConditionsAddUpWitness ==
    /\ pc = "returned"
    /\ filePath = "ifand.go"
    /\ ret.Conditions = 2
    /\ Len(ret.ConditionList) = 2

\* C9: calls and assignments count independently: an analysed file's Branches is
\* the number of its call expressions, also of those on the right of an
\* assignment, and its Assignments the number of its assignment targets; for
\* `y = foo.Bar(x)` both are 1 and the one branch record reads "foo.Bar".
CallsAndAssignmentsIndependent ==
    (pc = "returned" /\ err = NoError) =>
        LET all     == NodesOf(<<TreeOf(filePath)>>)
            assigns == {i \in 1..Len(all) : all[i].kind = "AssignStmt"}
            onRight == {i \in assigns : \E j \in 1..Len(all[i].Rhs) :
                                            all[i].Rhs[j].kind = "CallExpr"}
        IN  /\ ret.Branches = NumKind({"CallExpr"})
            /\ Len(ret.AssignmentList) = Cardinality(assigns)
            /\ \A i \in onRight :
                 /\ \E a \in 1..Len(ret.AssignmentList) :
                        /\ ret.AssignmentList[a].Line = all[i].Pos.Line
                        /\ ret.AssignmentList[a].Col = all[i].Pos.Column
                 /\ \A j \in 1..Len(all[i].Rhs) :
                        all[i].Rhs[j].kind = "CallExpr" =>
                            \E b \in 1..Len(ret.BranchList) :
                                /\ ret.BranchList[b].Line = all[i].Rhs[j].Pos.Line
                                /\ ret.BranchList[b].Col = all[i].Rhs[j].Pos.Column
            /\ filePath = "pkg/call.go" =>
                 /\ ret.Assignments = 1
                 /\ ret.Branches = 1
                 /\ ret.BranchList = <<MetricDetail(4, 6, "foo.Bar", "Function call")>>

\* `y = foo.Bar(x)` is analysed
CallAssignWitness ==
    /\ pc = "returned"
    /\ filePath = "pkg/call.go"
    /\ ret.Assignments = 1
    /\ ret.Branches = 1

\* the path ends with the extension
EndsWith(path, extension) ==
    \E n \in 0..Len(path) : SubSeq(path, 1, n) \o extension = path

\* C10: GetAnalyzerForFile gives the Go analyzer exactly for the paths that end
\* in ".go"; for every other path, also one shorter than ".go", it gives no
\* analyzer and an UnsupportedFileError that carries the path and reads
\* "unsupported file type: <path>".
DispatchByExtension ==
    pc # "idle" =>
        /\ analyzer = "GoAnalyzer" <=> EndsWith(filePath, ".go")
        /\ analyzer \in {"GoAnalyzer", "nil"}
        /\ analyzer = "GoAnalyzer" => (pc = "exit1" \/ err = NoError \/ err.type = "wrapError")
        /\ analyzer = "nil" =>
             /\ pc = "exit1"
             /\ err.type = "UnsupportedFileError"
             /\ err.FilePath = filePath
             /\ ErrorString(err) = "unsupported file type: " \o filePath
        /\ Len(filePath) < Len(".go") => analyzer = "nil"

\* the path "go", shorter than the extension, was refused
DispatchWitness ==
    /\ pc = "exit1"
    /\ filePath = "go"
    /\ analyzer = "nil"
    /\ err = UnsupportedFileError("go")

\* the sum of a count field and the concatenation of a detail list over arguments
RECURSIVE Total(_, _)
Total(ms, field) == IF ms = <<>> THEN 0 ELSE Total(SubSeq(ms, 1, Len(ms) - 1), field) + ms[Len(ms)][field]

RECURSIVE Chain(_, _)
Chain(ms, field) == IF ms = <<>> THEN <<>> ELSE ms[1][field] \o Chain(Tail(ms), field)

\* the accumulator with the arguments' counts summed and their lists in argument order
InOrder(ms) ==
    [Assignments    |-> Total(ms, "Assignments"),
     Branches       |-> Total(ms, "Branches"),
     Conditions     |-> Total(ms, "Conditions"),
     AssignmentList |-> Chain(ms, "AssignmentList"),
     BranchList     |-> Chain(ms, "BranchList"),
     ConditionList  |-> Chain(ms, "ConditionList")]

\* C5: CombineMetrics is associative, and its lists are the arguments' lists in
\* argument order: for the first three arguments a, b, c of a call, combining
\* (a, b) first or (b, c) first gives the same counts and lists, all of a's
\* records, then b's, then c's; and a finished call holds exactly that for its
\* own arguments.
CombineAssociative ==
    /\ nfolded = Len(operands) => folded = InOrder(operands)
    /\ Len(operands) >= 3 =>
         LET a == operands[1]
             b == operands[2]
             c == operands[3]
             left  == CombineMetrics(<<CombineMetrics(<<a, b>>), c>>)
             right == CombineMetrics(<<a, CombineMetrics(<<b, c>>)>>)
         IN  /\ left = right
             /\ left = InOrder(<<a, b, c>>)
             /\ CombineMetrics(<<a, b, c>>) = left

\* the accumulators of three different files were combined
CombineAssociativeWitness ==
    /\ operands = <<AnalyzeFile(CallAssignTree), AnalyzeFile(MultiAssignTree),
                    AnalyzeFile(SwitchTree)>>
    /\ nfolded = 3
    /\ folded.Branches = 5
    /\ folded.BranchList[1].Text = "foo.Bar"
    /\ folded.BranchList[5].Text = "f"

\* the all-zero, all-empty accumulator
Identity ==
    [Assignments |-> 0, Branches |-> 0, Conditions |-> 0,
     AssignmentList |-> <<>>, BranchList |-> <<>>, ConditionList |-> <<>>]

\* C6: the all-zero, all-empty accumulator is the identity of CombineMetrics:
\* combined with it on either side every argument keeps its counts and its
\* lists, a finished call with it as one of two arguments holds the other
\* argument, and CombineMetrics of no arguments is it.
CombineIdentity ==
    /\ CombineMetrics(<<>>) = Identity
    /\ \A i \in 1..Len(operands) :
         /\ CombineMetrics(<<operands[i], Identity>>) = operands[i]
         /\ CombineMetrics(<<Identity, operands[i]>>) = operands[i]
    /\ (nfolded = Len(operands) /\ Len(operands) = 0) => folded = Identity
    /\ (nfolded = Len(operands) /\ Len(operands) = 2 /\ operands[2] = Identity) =>
         folded = operands[1]
    /\ (nfolded = Len(operands) /\ Len(operands) = 2 /\ operands[1] = Identity) =>
         folded = operands[2]

\* a file's accumulator was combined with the identity
CombineIdentityWitness ==
    /\ operands = <<AnalyzeFile(MultiAssignTree), Identity>>
    /\ nfolded = 2
    /\ folded.Assignments = 3
    /\ Len(folded.BranchList) = 3

TestMillis ==
    {-1000, 0, 9999, 10000, 10001, 19999, 20000, 20001, 39999, 40000, 40001, 46000}

ExactSumOfSquares(m) ==
    BigAdd(BigAdd(BigMul(m.Assignments, m.Assignments), BigMul(m.Branches, m.Branches)),
           BigMul(m.Conditions, m.Conditions))

SeverityRank(l) ==
    CASE l = "Low" -> 1 [] l = "Medium" -> 2 [] l = "High" -> 3 [] l = "Very High" -> 4

\* C7: for all non-negative counts Score is the square root of A^2 + B^2 + C^2,
\* and raising any one count lowers neither the sum the code computes, nor the
\* score, nor the severity label.
ScoreIsRootOfSquares ==
    npc = "scored" =>
        /\ score = [nan |-> FALSE, neg |-> FALSE, sq |-> BigMul(ExactSumOfSquares(counts), Million)]
        /\ \A f \in {"Assignments", "Branches", "Conditions"} :
             \A v \in CountVals(intBytes) :
                 BigLess(counts[f], v) =>
                     LET more == [counts EXCEPT ![f] = v]
                     IN  /\ ~IntLess(SumOfSquares(more, intBytes), SumOfSquares(counts, intBytes), intBytes)
                         /\ ~FLess(Score(more, intBytes), score)
                         /\ SeverityRank(SeverityLevel(Score(more, intBytes)))
                              >= SeverityRank(SeverityLevel(score))

\* the lines Run prints after a successful AnalyzeFile
ResultLines ==
    {i \in 1..Len(output) :
        \/ output[i].text = "ABC"
        \/ (Len(output[i].text) >= 11 /\ SubSeq(output[i].text, 1, 11) = "Complexity:")}

\* C11: when os.ReadFile or parser.ParseFile fails, AnalyzeFile returns an error
\* together with the zero accumulator (counts 0, lists empty), whatever earlier
\* files left behind, no Visit is made for the file, and Run prints only the
\* "Analyzing file" line for it: no score and no severity.
FailureReturnsZeroAccumulator ==
    (pc \in {"returned", "exit1"} /\ err.type = "wrapError") =>
        /\ ret = ZeroMetrics
        /\ ret.Assignments = 0 /\ ret.Branches = 0 /\ ret.Conditions = 0
        /\ ret.AssignmentList = <<>> /\ ret.BranchList = <<>> /\ ret.ConditionList = <<>>
        /\ TreeOf(filePath) \in {Unreadable, SyntaxError}
        /\ output = <<[text |-> "Analyzing file: " \o filePath]>>
        /\ ResultLines = {}

\* a file fails to parse after another one was analysed with a non-zero result
FailureReturnsZeroWitness ==
    /\ pc = "exit1"
    /\ err = WrappedError("error parsing file")
    /\ nfiles = 1
    /\ combined.Conditions > 0
    /\ metrics # ZeroMetrics
    /\ ret = ZeroMetrics

\* the nodes of the analysed file in pre-order: a node, then its children's
\* subtrees from first to last
PreOrder == NodesOf(<<TreeOf(filePath)>>)

\* the node adds a record to the list of this category
Contributes(n, category) ==
    CASE category = "Assignment" -> n.kind = "AssignStmt"
      [] category = "Branch"     -> n.kind = "CallExpr"
      [] category = "Condition"  ->
            \/ n.kind \in ConditionStatements
            \/ (n.kind = "CaseClause" /\ n.List # <<>>)
            \/ (n.kind = "BinaryExpr" /\ n.Op \in {"&&", "||"})

\* where the contributing nodes of a node sequence stand, in the sequence's order
ContributorsOf(nodes, category) ==
    LET sel == SelectSeq(nodes, LAMBDA n : Contributes(n, category))
    IN  [i \in 1..Len(sel) |-> [Line |-> sel[i].Pos.Line, Col |-> sel[i].Pos.Column]]

\* where the records of an evidence list point, in list order
RecordedAt(list) == [i \in 1..Len(list) |-> [Line |-> list[i].Line, Col |-> list[i].Col]]

\* the source lines of the detail listing printed under a heading, in print order
RECURSIVE DetailRun(_)
DetailRun(lines) ==
    IF lines = <<>> \/ Head(lines).text # "detail" THEN <<>>
    ELSE <<Head(lines).Line>> \o DetailRun(Tail(lines))

ListedUnder(heading) ==
    LET h == CHOOSE i \in 1..Len(output) : output[i].text = heading
    IN  DetailRun(SubSeq(output, h + 1, Len(output)))

\* C12: the traversal calls Visit on the nodes of the file in pre-order, each
\* once and none left out (what has been visited so far is a prefix of the
\* pre-order, all of it when AnalyzeFile returns), and each evidence list holds
\* the records of the visited contributing nodes of its category in that order of
\* visit; the detail listing prints them in the same order.
TraversalIsPreOrder ==
    (pc \in {"walking", "returned", "reported"} /\ err = NoError) =>
        LET all  == PreOrder
            done == SubSeq(all, 1, Len(visited))
        IN  /\ Len(visited) <= Len(all)
            /\ \A i \in 1..Len(visited) :
                   visited[i] = [kind |-> all[i].kind, Pos |-> all[i].Pos]
            /\ pc # "walking" => Len(visited) = Len(all)
            /\ RecordedAt(metrics.AssignmentList) = ContributorsOf(done, "Assignment")
            /\ RecordedAt(metrics.BranchList) = ContributorsOf(done, "Branch")
            /\ RecordedAt(metrics.ConditionList) = ContributorsOf(done, "Condition")
            /\ pc # "walking" => ret = metrics
            /\ (pc = "reported" /\ Len(output) > 3) =>
                   /\ ListedUnder("Assignments:") =
                        [i \in 1..Len(ContributorsOf(all, "Assignment")) |->
                            ContributorsOf(all, "Assignment")[i].Line]
                   /\ ListedUnder("Branches:") =
                        [i \in 1..Len(ContributorsOf(all, "Branch")) |->
                            ContributorsOf(all, "Branch")[i].Line]
                   /\ ListedUnder("Conditions:") =
                        [i \in 1..Len(ContributorsOf(all, "Condition")) |->
                            ContributorsOf(all, "Condition")[i].Line]

\* a, m[k], c = f(), 2, g.h().k() is analysed and listed: the call of k is
\* visited before the call of g.h inside its callee
TraversalIsPreOrderWitness ==
    /\ pc = "reported"
    /\ filePath = "multi.go"
    /\ Len(output) > 3
    /\ Len(ret.BranchList) = 3
    /\ ret.BranchList[1].Text = "f"
    /\ ret.BranchList[2].Text = "k"
    /\ ret.BranchList[3].Text = "g.h"

\* the name the callee of a call is recorded under
CalleeText(fun) ==
    IF fun.kind = "Ident" THEN fun.Name
    ELSE IF fun.kind = "SelectorExpr" /\ fun.X.kind = "Ident"
         THEN fun.X.Name \o "." \o fun.Sel.Name
    ELSE IF fun.kind = "SelectorExpr" THEN fun.Sel.Name
    ELSE "unknown"

\* C13: the visit of a call expression adds one to Branches and appends one
\* record with context "Function call" whatever its callee is: the text is the
\* identifier for a bare identifier, "receiver.method" for a selector on an
\* identifier, the selected name alone for a selector on anything else and
\* "unknown" for every other callee; assignments and conditions stay as they are.
CallVisitEffect ==
    [][Visiting("CallExpr") =>
         LET n == Head(agenda)
         IN  /\ metrics'.Branches = metrics.Branches + 1
             /\ metrics'.BranchList =
                  Append(metrics.BranchList,
                         MetricDetail(n.Pos.Line, n.Pos.Column, CalleeText(n.Fun),
                                      "Function call"))
             /\ n.Fun.kind \notin {"Ident", "SelectorExpr"} =>
                  metrics'.BranchList[Len(metrics'.BranchList)].Text = "unknown"
             /\ metrics'.Assignments = metrics.Assignments
             /\ metrics'.Conditions = metrics.Conditions
             /\ metrics'.AssignmentList = metrics.AssignmentList
             /\ metrics'.ConditionList = metrics.ConditionList]_vars

\* multi.go and unknown.go are analysed: f(), g.h().k() and g.h() give "f", "k"
\* and "g.h"; (f)(x) and fs[0]() give "unknown" twice
CallVisitWitness ==
    /\ pc = "idle"
    /\ nfiles = 2
    /\ combined.Branches = 5
    /\ [i \in 1..Len(combined.BranchList) |-> combined.BranchList[i].Text] =
         <<"f", "k", "g.h", "unknown", "unknown">>
    /\ \A i \in 1..Len(combined.BranchList) :
           combined.BranchList[i].Context = "Function call"

\* the node is matched by a case of Visit's type switch and the case acts on it
Classified(n) ==
    /\ n # NilNode
    /\ \/ Contributes(n, "Assignment")
       \/ Contributes(n, "Branch")
       \/ Contributes(n, "Condition")

\* old is the beginning of new
IsPrefix(old, new) == Len(old) <= Len(new) /\ SubSeq(new, 1, Len(old)) = old

\* C14: a call of Visit on a node outside the classification (a nil node, a
\* default case clause and a binary expression other than && and || among them)
\* leaves the three counts and the three lists as they are; on a classified
\* node it changes the count and the list of the node's category only; and
\* over every step of a traversal no count decreases and every list keeps what
\* it held.
VisitFrame ==
    [][(pc = "walking" /\ agenda # <<>>) =>
         LET n == Head(agenda)
         IN  /\ ~Classified(n) => metrics' = metrics
             /\ (n # NilNode /\ ~Contributes(n, "Assignment")) =>
                  /\ metrics'.Assignments = metrics.Assignments
                  /\ metrics'.AssignmentList = metrics.AssignmentList
             /\ (n # NilNode /\ ~Contributes(n, "Branch")) =>
                  /\ metrics'.Branches = metrics.Branches
                  /\ metrics'.BranchList = metrics.BranchList
             /\ (n # NilNode /\ ~Contributes(n, "Condition")) =>
                  /\ metrics'.Conditions = metrics.Conditions
                  /\ metrics'.ConditionList = metrics.ConditionList
             /\ Classified(n) => metrics' # metrics
             /\ metrics'.Assignments >= metrics.Assignments
             /\ metrics'.Branches >= metrics.Branches
             /\ metrics'.Conditions >= metrics.Conditions
             /\ IsPrefix(metrics.AssignmentList, metrics'.AssignmentList)
             /\ IsPrefix(metrics.BranchList, metrics'.BranchList)
             /\ IsPrefix(metrics.ConditionList, metrics'.ConditionList)]_vars

\* in loops.go the walk has passed i := 0, i < n || done and i++: the comparison
\* and the increment were visited and left no trace
VisitFrameWitness ==
    /\ pc = "walking"
    /\ filePath = "loops.go"
    /\ visited # <<>>
    /\ visited[Len(visited)].kind = "IncDecStmt"
    /\ \E i \in 1..Len(visited) : visited[i] = [kind |-> "BinaryExpr", Pos |-> P(4, 14)]
    /\ metrics.Assignments = 1
    /\ Len(metrics.AssignmentList) = 1
    /\ metrics.Branches = 0
    /\ metrics.Conditions = 2
====
